---- MODULE Spec2Model ----
(***************************************************************************)
(* Browser Session Control Engine of browse-chat-buddy.                    *)
(*                                                                         *)
(* The repository holds three control surfaces; variable program says      *)
(* which one the callers of a run drive:                                   *)
(*   "BROWSER"  the multi-session server on port 8080 (RealBrowser         *)
(*              objects, the browserSessions / screenshotIntervals maps,   *)
(*              the WebSocket message handler and the HTTP routes);        *)
(*   "edge"     the browser-automation edge function, the request/response *)
(*              surface the chat clients invoke: it writes the             *)
(*              browser_sessions table and calls the HTTP routes of the    *)
(*              BROWSER server, which no WebSocket client drives then;     *)
(*   "server"   server/server.js, the single-browser server that listens   *)
(*              on the same port 8080 (globals browser, page,              *)
(*              screenshotInterval, connectedClients).                     *)
(* Three parts are studied on their own: "AIService" (one call of          *)
(* processCommand), "page" (one call of a type primitive) and              *)
(* "useCloudAI" (the client hook: its sockets, reconnect timeouts and      *)
(* loading flag).                                                          *)
(*                                                                         *)
(* Every handler is async: a handler runs up to its first await on a       *)
(* driver call (launch, goto, waitForSelector, screenshot, close), is      *)
(* parked in inflight, and its continuation is a separate action.  Awaits  *)
(* on the browser_sessions store are taken with the step that issues them. *)
(* A handler that answers leaves its response in resp; the event loop      *)
(* hands it to the socket (ResponseSent) before it runs the next callback. *)
(***************************************************************************)
EXTENDS Integers, Sequences, FiniteSets, Bags, TLC

\* ---------------------------------------------------------------- bounds
MaxObjs == 2        \* browsers launched (RealBrowser objects constructed)
MaxInFlight == 2    \* handlers and timer callbacks parked at an await at the same time
MaxSockets == 7     \* WebSockets one hook instance constructs
MaxAlive == 2       \* WebSockets of one hook instance connecting or open at the same time

\* ---------------------------------------------------------------- inputs
Sessions == {"s1", "s2"}
Clients == {"c1", "c2"}
Users == {"u1", "u2"}
BlankUrl == "about:blank"
GoogleUrl == "https://google.com"
URLs == {"https://example.com"}

\* The driver primitives of RealBrowser that the message switch dispatches.
Primitives == {"navigate", "click", "type", "scroll", "wait", "screenshot", "page_info"}
\* The values of data.action the WebSocket clients of a run send.
WsActions == {"init", "navigate", "click", "ai_action"}
\* The actions processCommand hands to executeAction in a run ("hover" is one
\* executeAction does not know).
SrvActions == {"navigate", "click", "hover"}
\* The actions of the edge function that forward to POST /api/browser.
EdgeForwarded == {"navigate", "click", "type", "ai_action"}
\* The forwarded actions the callers of a run request.
EdgeActions == {"navigate", "click"}

VARIABLES
  program,             \* which program of the repository the run exercises
  objs,                \* BROWSER: heap of RealBrowser objects, in construction order
  browserSessions,     \* BROWSER: sessionId -> index into objs, 0 when absent
  screenshotIntervals, \* BROWSER: sessionId -> timer id, 0 when absent
  timers,              \* BROWSER: ids of the setInterval timers not yet cleared
  inflight,            \* bag of the handlers and timer callbacks parked at an await
  db,                  \* browser_sessions table: sessionId -> row
  resp,                \* the response being sent to a caller, NoResp when none is
  inserted,            \* BROWSER: the browser_actions rows the last step inserted
  launched,            \* server: heap of the browsers puppeteer.launch returned
  browser,             \* server: global browser, index into launched, 0 when null
  page,                \* server: global page, index of its browser, 0 when null
  screenshotInterval,  \* server: TRUE when the global holds a running timer
  connectedClients,    \* server: the open WebSocket clients
  lastInit,            \* server: what the last init_response said: "none", "ok", "failed"
  translation,         \* AIService: the call of processCommand under study
  genAI,               \* BROWSER: TRUE when GEMINI_API_KEY is set
  field,               \* page: the input field a type primitive is applied to
  initSource,          \* edge: the source tag of each session's last init response, "" when none
  srvIntervals,        \* server: number of startScreenshotStream timers not yet cleared
  sockets,             \* useCloudAI: readyState of every WebSocket the hook constructed
  wsCurrent,           \* useCloudAI: ws.current, index into sockets, 0 when null
  reconnectAttempts,   \* useCloudAI: reconnectAttempts.current
  timeouts,            \* useCloudAI: number of reconnect setTimeout callbacks pending
  isLoading,           \* useCloudAI: the isLoading state
  awaiting,            \* useCloudAI: the sockets on which a command awaits its answer
  effect,              \* useCloudAI: "pending", "mounted", or "cleanup" once the cleanup ran
  sent,                \* useCloudAI: the message this step sent to the server, "" when none
  owner,               \* edge: the user_id column of browser_sessions: sessionId -> user, "" when unset
  caller,              \* edge: the authenticated user of the request this step served, "" when none
  fetched              \* edge: the route of the BROWSER server this step fetched, "" when none

vars == << program, objs, browserSessions, screenshotIntervals, timers,
           inflight, db, resp, inserted, launched, browser, page, screenshotInterval,
           connectedClients, lastInit, translation, genAI, field, initSource, srvIntervals,
           sockets, wsCurrent, reconnectAttempts, timeouts, isLoading, awaiting,
           effect, sent, owner, caller,
           fetched >>

hookVars == << sockets, wsCurrent, reconnectAttempts, timeouts, isLoading, awaiting,
              effect, sent >>
otherVars == << program, objs, browserSessions, screenshotIntervals, timers,
                inflight, db, resp, inserted, launched, browser, page, screenshotInterval,
                connectedClients, lastInit, translation, genAI, field, initSource,
                srvIntervals >>
browserVars == << objs, browserSessions, screenshotIntervals, timers, db >>
serverVars == << launched, browser, page, screenshotInterval, connectedClients,
                 lastInit, translation >>

\* ---------------------------------------------------------------- values
ObjIds == 1..MaxObjs

\* A parked handler.  stale is history, not program state: it records that a
\* stop/close for the handler's session was served while the handler was parked.
Handler(kind, sid, obj, action, url, edge) ==
  [kind |-> kind, sid |-> sid, obj |-> obj, action |-> action, url |-> url, edge |-> edge,
   stale |-> FALSE]

NoRow == [status |-> "none", current_url |-> "", last_action |-> ""]

\* A response: the surface it leaves by (via), the request it answers (req, for
\* the session or client sid, with the URL url it named), its type, its success
\* flag, its error message, the URL it reports (pageUrl) and its source tag.
\* On the WebSocket surfaces the flag is the message type or the success of the
\* nested result: {type: 'error', message} is a failure whose error is message.
NoResp == [via |-> "none", req |-> "", sid |-> "", type |-> "", success |-> FALSE,
           error |-> "", url |-> "", pageUrl |-> "", source |-> ""]

Resp(via, req, sid, type, success, error, url, source) ==
  [via |-> via, req |-> req, sid |-> sid, type |-> type, success |-> success,
   error |-> error, url |-> url, pageUrl |-> "", source |-> source]

Parked == BagToSet(inflight)
Park(h) == inflight (+) SetToBag({h})
Unpark(h) == inflight (-) SetToBag({h})
\* The bag of parked handlers once a stop/close for sid is served: the init and
\* action handlers of sid are marked stale, nothing else changes.
TornDown(bag, sid) ==
  LET hit(h) == h.sid = sid /\ h.kind \in {"init", "action", "ai_action"}
      tag(h) == IF hit(h) THEN [h EXCEPT !.stale = TRUE] ELSE h
      count(g) == IF g \in DOMAIN bag THEN bag[g] ELSE 0
  IN  [g \in {tag(h) : h \in DOMAIN bag} |->
         IF hit(g) THEN count(g) + count([g EXCEPT !.stale = FALSE]) ELSE count(g)]

\* The event loop takes another handler and no response waits to be sent.
CanPark == BagCardinality(inflight) < MaxInFlight
Ready == resp = NoResp

\* The message of the error a rejected driver primitive throws.
DriverError(action) ==
  IF action = "navigate" THEN "NavigationTimeout"
  ELSE IF action \in {"click", "type"} THEN "ElementNotFound"
  ELSE "TargetClosed"

\* ---------------------------------------------------------------- RealBrowser
\* new RealBrowser(sessionId, userId), together with ws, the socket of the
\* connection whose init handler constructed it: the closure of that handler
\* holds both, and the session's screenshot stream sends to that socket.
RealBrowser(sid) ==
  [sessionId |-> sid, browser |-> "none", isReady |-> FALSE, ws |-> "open"]

\* updateSessionInDB: an upsert of the whole row, keyed by the session id.
updateSessionInDB(table, sid, status, currentUrl, lastAction) ==
  [table EXCEPT ![sid] = [status |-> status, current_url |-> currentUrl,
                          last_action |-> lastAction]]

\* supabase .update({...}).eq('id', sid): changes a row only where one exists.
updateStatus(table, sid, status) ==
  IF table[sid] = NoRow THEN table
  ELSE [table EXCEPT ![sid].status = status]


\* logAction: the row it inserts into browser_actions.
logAction(sid, action) == << [session_id |-> sid, action |-> action] >>

\* RealBrowser.initialize: launch, newPage, setViewport, setUserAgent, then the
\* upsert of the row.  outcome is where the try block ends: "ok",
\* "launch_failed" (puppeteer.launch rejects, this.browser stays null) or
\* "page_failed" (this.browser is set, a later call rejects).
initialize(heap, o, outcome) ==
  IF outcome = "ok"
    THEN [heap EXCEPT ![o].browser = "live", ![o].isReady = TRUE]
  ELSE IF outcome = "page_failed"
    THEN [heap EXCEPT ![o].browser = "live"]
  ELSE heap

InitOutcomes == {"ok", "launch_failed", "page_failed"}

\* ---------------------------------------------------------------- BROWSER: WebSocket
\* ws.on('message'): up to the first await on the driver.
WsOnMessage(sid, action, url) ==
  /\ program = "BROWSER"
  /\ UNCHANGED fetched
  /\ UNCHANGED caller
  /\ UNCHANGED owner
  /\ UNCHANGED hookVars
  /\ UNCHANGED srvIntervals
  /\ UNCHANGED initSource
  /\ UNCHANGED field
  /\ UNCHANGED genAI
  /\ Ready
  /\ inserted' = << >>
  /\ LET session == browserSessions[sid] IN
       IF session = 0 /\ action = "init" THEN
         /\ CanPark
         /\ Len(objs) < MaxObjs
         /\ objs' = Append(objs, RealBrowser(sid))
         /\ inflight' = Park(Handler("init", sid, Len(objs) + 1, action, "", FALSE))
         /\ UNCHANGED resp
       ELSE IF session = 0 THEN
         /\ resp' = Resp("ws", action, sid, "error", FALSE,
                         "Session not found. Initialize first.", "", "")
         /\ UNCHANGED << objs, inflight >>
       ELSE IF action = "ai_action" THEN
         \* intelligentAction up to `await model.generateContent(prompt)`
         IF ~genAI THEN
           /\ resp' = Resp("ws", action, sid, "error", FALSE,
                           "Gemini API not configured", "", "")
           /\ UNCHANGED << objs, inflight >>
         ELSE IF ~objs[session].isReady THEN
           /\ resp' = Resp("ws", action, sid, "error", FALSE, "Browser not ready", "", "")
           /\ UNCHANGED << objs, inflight >>
         ELSE
           /\ CanPark
           /\ inflight' = Park(Handler("ai_action", sid, session, action, "", FALSE))
           /\ UNCHANGED << objs, resp >>
       ELSE IF action \in Primitives THEN
         IF ~objs[session].isReady THEN
           /\ resp' = Resp("ws", action, sid, "error", FALSE, "Browser not ready", "", "")
           /\ UNCHANGED << objs, inflight >>
         ELSE
           /\ CanPark
           /\ inflight' = Park(Handler("action", sid, session, action, url, FALSE))
           /\ UNCHANGED << objs, resp >>
       ELSE
         /\ resp' = Resp("ws", action, sid, "error", FALSE, "Unknown action", "", "")
         /\ UNCHANGED << objs, inflight >>
  /\ UNCHANGED << program, browserSessions, screenshotIntervals, timers, db >>
  /\ UNCHANGED serverVars

\* The init branch after `await session.initialize()`.
WsInitializeDone(h, outcome) ==
  /\ program = "BROWSER"
  /\ UNCHANGED fetched
  /\ UNCHANGED caller
  /\ UNCHANGED owner
  /\ UNCHANGED hookVars
  /\ UNCHANGED srvIntervals
  /\ UNCHANGED initSource
  /\ UNCHANGED field
  /\ UNCHANGED genAI
  /\ Ready
  /\ inserted' = << >>
  /\ h \in Parked
  /\ h.kind = "init"
  /\ LET o == h.obj
         sid == h.sid
     IN  /\ objs' = initialize(objs, o, outcome)
         /\ IF outcome = "ok" THEN
              /\ db' = updateSessionInDB(db, sid, "active", BlankUrl, "")
              /\ browserSessions' = [browserSessions EXCEPT ![sid] = o]
              /\ timers' = timers \cup {o}
              /\ screenshotIntervals' = [screenshotIntervals EXCEPT ![sid] = o]
              /\ resp' = Resp("ws", "init", sid, "init_success", TRUE, "", "", "")
            ELSE
              /\ resp' = Resp("ws", "init", sid, "error", FALSE,
                              "Failed to initialize browser", "", "")
              /\ UNCHANGED << db, browserSessions, timers, screenshotIntervals >>
  /\ inflight' = Unpark(h)
  /\ UNCHANGED program
  /\ UNCHANGED serverVars

\* A primitive of RealBrowser resolved: its bookkeeping, then the action_result.
\* resolved is what page.url() returns after a load (the target of a redirect
\* where there was one).
WsActionOk(h, resolved) ==
  /\ program = "BROWSER"
  /\ UNCHANGED fetched
  /\ UNCHANGED caller
  /\ UNCHANGED owner
  /\ UNCHANGED hookVars
  /\ UNCHANGED srvIntervals
  /\ UNCHANGED initSource
  /\ UNCHANGED field
  /\ UNCHANGED genAI
  /\ Ready
  /\ h \in Parked
  /\ h.kind = "action"
  /\ LET o == h.obj
         sid == h.sid
         action == h.action
     IN  /\ objs[o].browser = "live"
         /\ IF action = "navigate" THEN
              /\ db' = updateSessionInDB(db, sid, "active", h.url, "navigate")
              /\ resp' = [Resp("ws", action, sid, "action_result", TRUE, "", h.url, "")
                            EXCEPT !.pageUrl = resolved]
            ELSE
              /\ resolved = ""
              /\ resp' = Resp("ws", action, sid, "action_result", TRUE, "", "", "")
              /\ UNCHANGED db
         /\ inserted' = IF action = "page_info" THEN << >> ELSE logAction(sid, action)
         /\ UNCHANGED objs
  /\ inflight' = Unpark(h)
  /\ UNCHANGED << program, browserSessions, screenshotIntervals, timers >>
  /\ UNCHANGED serverVars

\* A primitive that resolved while a close of its session was awaiting
\* browser.close(), with the awaits that follow it (updateSessionInDB,
\* logAction) settling after the close finished: the upsert of navigate lands
\* after the upsert of close, and `this.page.url()` then throws on the null
\* page, which the catch of the message handler reports.
WsActionLate(h) ==
  /\ program = "BROWSER"
  /\ UNCHANGED fetched
  /\ UNCHANGED caller
  /\ UNCHANGED owner
  /\ UNCHANGED hookVars
  /\ UNCHANGED srvIntervals
  /\ UNCHANGED initSource
  /\ UNCHANGED field
  /\ UNCHANGED genAI
  /\ Ready
  /\ h \in Parked
  /\ h.kind = "action"
  /\ h.stale
  /\ objs[h.obj].browser = "closed"
  /\ IF h.action = "navigate" THEN
       /\ db' = updateSessionInDB(db, h.sid, "active", h.url, "navigate")
       /\ resp' = Resp("ws", h.action, h.sid, "error", FALSE,
                       "Cannot read properties of null", h.url, "")
     ELSE
       /\ resp' = Resp("ws", h.action, h.sid, "action_result", TRUE, "", "", "")
       /\ UNCHANGED db
  /\ inserted' = IF h.action = "page_info" THEN << >> ELSE logAction(h.sid, h.action)
  /\ inflight' = Unpark(h)
  /\ UNCHANGED << program, objs, browserSessions, screenshotIntervals, timers >>
  /\ UNCHANGED serverVars

\* A catch that gives the session up on the first failed primitive: it
\* unregisters the session and clears its screenshot interval.
WsActionFail_Mutant(h) ==
  /\ program = "BROWSER"
  /\ UNCHANGED fetched
  /\ UNCHANGED caller
  /\ UNCHANGED owner
  /\ UNCHANGED hookVars
  /\ UNCHANGED srvIntervals
  /\ UNCHANGED initSource
  /\ UNCHANGED field
  /\ UNCHANGED genAI
  /\ Ready
  /\ h \in Parked
  /\ h.kind = "action"
  /\ resp' = Resp("ws", h.action, h.sid, "error", FALSE,
                  DriverError(h.action), h.url, "")
  /\ inserted' = << >>
  /\ inflight' = Unpark(h)
  /\ browserSessions' = [browserSessions EXCEPT ![h.sid] = 0]
  /\ timers' = timers \ {screenshotIntervals[h.sid]}
  /\ screenshotIntervals' = [screenshotIntervals EXCEPT ![h.sid] = 0]
  /\ UNCHANGED << program, objs, db >>
  /\ UNCHANGED serverVars

\* A primitive of RealBrowser rejected: the catch of the message handler.
WsActionFail(h) ==
  /\ program = "BROWSER"
  /\ UNCHANGED fetched
  /\ UNCHANGED caller
  /\ UNCHANGED owner
  /\ UNCHANGED hookVars
  /\ UNCHANGED srvIntervals
  /\ UNCHANGED initSource
  /\ UNCHANGED field
  /\ UNCHANGED genAI
  /\ Ready
  /\ inserted' = << >>
  /\ h \in Parked
  /\ h.kind = "action"
  /\ resp' = Resp("ws", h.action, h.sid, "error", FALSE,
                  DriverError(h.action), h.url, "")
  /\ inflight' = Unpark(h)
  /\ UNCHANGED program
  /\ UNCHANGED browserVars
  /\ UNCHANGED serverVars

\* Where intelligentAction ends: getPageInfo or takeScreenshot rejects
\* ("context_failed"), generateContent rejects ("unreachable"), JSON.parse
\* throws ("unparseable"), the parsed action is of no known kind ("unknown"),
\* the primitive of the parsed action rejects ("driver_failed") or resolves ("ok").
AIOutcomes == {"context_failed", "unreachable", "unparseable", "unknown", "driver_failed", "ok"}
\* The kinds of the actions the model's answers name in a run.
AIDerived == {"navigate", "click"}

\* The message of the error intelligentAction rethrows.
AIError(outcome, derived) ==
  IF outcome = "context_failed" THEN DriverError("screenshot")
  ELSE IF outcome = "unreachable" THEN "GoogleGenerativeAI Error"
  ELSE IF outcome = "unparseable" THEN "Unexpected token"
  ELSE IF outcome = "unknown" THEN "Unknown action"
  ELSE DriverError(derived)

\* intelligentAction from `await model.generateContent(prompt)` to its end,
\* then the action_result, or the error of the handler's catch.
WsAIActionDone(h, outcome, derived, url) ==
  /\ program = "BROWSER"
  /\ UNCHANGED fetched
  /\ UNCHANGED caller
  /\ UNCHANGED owner
  /\ UNCHANGED hookVars
  /\ UNCHANGED srvIntervals
  /\ UNCHANGED initSource
  /\ UNCHANGED field
  /\ UNCHANGED genAI
  /\ Ready
  /\ h \in Parked
  /\ h.kind = "ai_action"
  /\ outcome \notin {"driver_failed", "ok"} => (derived = "click" /\ url = "")
  /\ LET sid == h.sid
         shot == IF outcome = "context_failed" THEN << >> ELSE logAction(sid, "screenshot")
     IN  IF outcome = "ok" THEN
           /\ objs[h.obj].browser = "live"
           /\ db' = IF derived = "navigate"
                      THEN updateSessionInDB(db, sid, "active", url, "navigate")
                      ELSE db
           /\ resp' = Resp("ws", h.action, sid, "action_result", TRUE, "", url, "")
           /\ inserted' = shot \o logAction(sid, derived) \o logAction(sid, h.action)
         ELSE
           /\ resp' = Resp("ws", h.action, sid, "error", FALSE, AIError(outcome, derived),
                           url, "")
           /\ inserted' = shot
           /\ UNCHANGED db
  /\ inflight' = Unpark(h)
  /\ UNCHANGED << program, objs, browserSessions, screenshotIntervals, timers >>
  /\ UNCHANGED serverVars

\* The setInterval callback of a session's screenshot stream, up to
\* `await session.takeScreenshot()`; timer t holds the session object t.
TimerTick(t) ==
  /\ program = "BROWSER"
  /\ UNCHANGED fetched
  /\ UNCHANGED caller
  /\ UNCHANGED owner
  /\ UNCHANGED hookVars
  /\ UNCHANGED srvIntervals
  /\ UNCHANGED initSource
  /\ UNCHANGED field
  /\ UNCHANGED genAI
  /\ Ready
  /\ inserted' = << >>
  /\ t \in timers
  /\ IF objs[t].isReady
       THEN /\ CanPark
            /\ inflight' = Park(Handler("capture", objs[t].sessionId, t, "screenshot",
                                        "", FALSE))
       ELSE UNCHANGED inflight
  /\ UNCHANGED << program, resp >>
  /\ UNCHANGED browserVars
  /\ UNCHANGED serverVars

\* takeScreenshot of a timer callback resolved (the frame is sent) or rejected
\* (the callback's catch logs the error).
CaptureDone(h, ok) ==
  /\ program = "BROWSER"
  /\ UNCHANGED fetched
  /\ UNCHANGED caller
  /\ UNCHANGED owner
  /\ UNCHANGED hookVars
  /\ UNCHANGED srvIntervals
  /\ UNCHANGED initSource
  /\ UNCHANGED field
  /\ UNCHANGED genAI
  /\ Ready
  /\ h \in Parked
  /\ h.kind = "capture"
  /\ ok => objs[h.obj].browser = "live"
  /\ inflight' = Unpark(h)
  /\ resp' = IF ok /\ objs[h.obj].ws = "open"
               THEN Resp("ws", "stream", h.sid, "screenshot", TRUE, "", "", "")
               ELSE NoResp
  /\ inserted' = IF ok THEN logAction(h.sid, "screenshot") ELSE << >>
  /\ UNCHANGED program
  /\ UNCHANGED browserVars
  /\ UNCHANGED serverVars

\* A capture whose page.screenshot resolved while a close of its session was
\* awaiting browser.close(), with the `await this.logAction` of takeScreenshot
\* settling after the close finished: the callback then sends the frame.
CaptureLate(h) ==
  /\ program = "BROWSER"
  /\ UNCHANGED fetched
  /\ UNCHANGED caller
  /\ UNCHANGED owner
  /\ UNCHANGED hookVars
  /\ UNCHANGED srvIntervals
  /\ UNCHANGED initSource
  /\ UNCHANGED field
  /\ UNCHANGED genAI
  /\ Ready
  /\ h \in Parked
  /\ h.kind = "capture"
  /\ objs[h.obj].browser = "closed"
  /\ inflight' = Unpark(h)
  /\ resp' = IF objs[h.obj].ws = "open"
               THEN Resp("ws", "stream", h.sid, "screenshot", TRUE, "", "", "")
               ELSE NoResp
  /\ inserted' = logAction(h.sid, "screenshot")
  /\ UNCHANGED program
  /\ UNCHANGED browserVars
  /\ UNCHANGED serverVars

\* ws.on('close') of the connection that initialised object o: the loop over
\* browserSessions has an empty body, so only the socket's state changes.
WsClose(o) ==
  /\ program = "BROWSER"
  /\ UNCHANGED fetched
  /\ UNCHANGED caller
  /\ UNCHANGED owner
  /\ UNCHANGED hookVars
  /\ UNCHANGED srvIntervals
  /\ UNCHANGED initSource
  /\ UNCHANGED field
  /\ UNCHANGED genAI
  /\ Ready
  /\ inserted' = << >>
  /\ o \in 1..Len(objs)
  /\ objs[o].ws = "open"
  /\ objs' = [objs EXCEPT ![o].ws = "closed"]
  /\ UNCHANGED << program, browserSessions, screenshotIntervals, timers, inflight, db,
                  resp >>
  /\ UNCHANGED serverVars

\* ---------------------------------------------------------------- BROWSER: HTTP routes
Routes == {"/health", "/sessions", "/sessions/:sessionId/actions",
           "/sessions/:sessionId/close"}

StopResponse(sid, viaEdge) ==
  IF viaEdge
    THEN Resp("edge", "stop_session", sid, "response", TRUE, "", "", "")
    ELSE Resp("http", "close", sid, "response", TRUE, "", "", "")

\* POST /sessions/:sessionId/close up to `await this.browser.close()`; viaEdge
\* when handleStopSession made the request and continues after the response.
CloseRoute(sid, viaEdge) ==
  LET session == browserSessions[sid] IN
    IF session # 0 /\ objs[session].browser = "live" THEN
      /\ CanPark
      /\ inflight' = TornDown(inflight, sid)
                        (+) SetToBag({Handler("close", sid, session, "close", "", viaEdge)})
      /\ UNCHANGED << resp, db, browserSessions, screenshotIntervals, timers >>
    ELSE
      /\ db' = LET closed == IF session # 0
                               THEN updateSessionInDB(db, sid, "closed", "", "")
                               ELSE db
               IN  IF viaEdge THEN updateStatus(closed, sid, "stopped") ELSE closed
      /\ browserSessions' = [browserSessions EXCEPT ![sid] = 0]
      /\ timers' = IF session # 0 THEN timers \ {screenshotIntervals[sid]} ELSE timers
      /\ screenshotIntervals' = IF session # 0
                                  THEN [screenshotIntervals EXCEPT ![sid] = 0]
                                  ELSE screenshotIntervals
      /\ resp' = StopResponse(sid, viaEdge)
      /\ inflight' = TornDown(inflight, sid)

HttpCloseSession(sid) ==
  /\ program = "BROWSER"
  /\ UNCHANGED fetched
  /\ UNCHANGED caller
  /\ UNCHANGED owner
  /\ UNCHANGED hookVars
  /\ UNCHANGED srvIntervals
  /\ UNCHANGED initSource
  /\ UNCHANGED field
  /\ UNCHANGED genAI
  /\ Ready
  /\ inserted' = << >>
  /\ CloseRoute(sid, FALSE)
  /\ UNCHANGED << program, objs >>
  /\ UNCHANGED serverVars

\* The close route after `await this.browser.close()`: the rest of
\* RealBrowser.close, then the maps, then the response.
CloseDone(h) ==
  /\ program = "BROWSER"
  /\ UNCHANGED fetched
  /\ UNCHANGED caller
  /\ UNCHANGED owner
  /\ UNCHANGED hookVars
  /\ UNCHANGED srvIntervals
  /\ UNCHANGED initSource
  /\ UNCHANGED field
  /\ UNCHANGED genAI
  /\ Ready
  /\ inserted' = << >>
  /\ h \in Parked
  /\ h.kind = "close"
  /\ LET o == h.obj
         sid == h.sid
         closed == updateSessionInDB(db, sid, "closed", "", "")
     IN  /\ objs' = [objs EXCEPT ![o].browser = "closed", ![o].isReady = FALSE]
         /\ db' = IF h.edge THEN updateStatus(closed, sid, "stopped") ELSE closed
         /\ browserSessions' = [browserSessions EXCEPT ![sid] = 0]
         /\ timers' = timers \ {screenshotIntervals[sid]}
         /\ screenshotIntervals' = [screenshotIntervals EXCEPT ![sid] = 0]
         /\ resp' = StopResponse(sid, h.edge)
  /\ inflight' = Unpark(h)
  /\ UNCHANGED program
  /\ UNCHANGED serverVars


\* ---------------------------------------------------------------- edge function
\* fetch(`${BROWSER_SERVER_URL}${route}`) resolves with response.ok: the server
\* is reachable (up) and has the route.
FetchOk(up, route) == up /\ route \in Routes

\* .update({current_url, last_action}).eq('id', sid) of handleNavigate.
updateNavigate(table, sid, url) ==
  IF table[sid] = NoRow THEN table
  ELSE [table EXCEPT ![sid].current_url = url, ![sid].last_action = "navigate"]

handleStartSession(sid, userId) ==
  /\ program = "edge"
  /\ UNCHANGED fetched
  /\ caller' = userId
  /\ owner' = [owner EXCEPT ![sid] = userId]
  /\ UNCHANGED hookVars
  /\ UNCHANGED srvIntervals
  /\ UNCHANGED initSource
  /\ UNCHANGED field
  /\ UNCHANGED genAI
  /\ Ready
  /\ inserted' = << >>
  /\ db' = updateSessionInDB(db, sid, "active", BlankUrl, "start_session")
  /\ resp' = Resp("edge", "start_session", sid, "response", TRUE, "", "", "")
  /\ UNCHANGED << program, objs, browserSessions, screenshotIntervals, timers,
                  inflight >>
  /\ UNCHANGED serverVars

handleInitBrowser(sid, userId, up) ==
  /\ program = "edge"
  /\ fetched' = "/health"
  /\ caller' = userId
  /\ UNCHANGED owner
  /\ UNCHANGED hookVars
  /\ UNCHANGED srvIntervals
  /\ UNCHANGED field
  /\ UNCHANGED genAI
  /\ Ready
  /\ inserted' = << >>
  /\ resp' = Resp("edge", "init", sid, "response", TRUE, "", "",
                  IF FetchOk(up, "/health") THEN "real_browser" ELSE "fallback")
  /\ initSource' = [initSource EXCEPT ![sid] = resp'.source]
  /\ UNCHANGED << program, inflight >>
  /\ UNCHANGED browserVars
  /\ UNCHANGED serverVars

\* handleNavigate, handleClick, handleType, handleAIAction: POST /api/browser.
handleForward(sid, userId, action, url, up) ==
  /\ program = "edge"
  /\ fetched' = "/api/browser"
  /\ caller' = userId
  /\ UNCHANGED owner
  /\ UNCHANGED hookVars
  /\ UNCHANGED srvIntervals
  /\ UNCHANGED initSource
  /\ UNCHANGED field
  /\ UNCHANGED genAI
  /\ Ready
  /\ inserted' = << >>
  /\ IF FetchOk(up, "/api/browser") THEN
       /\ db' = IF action = "navigate" THEN updateNavigate(db, sid, url) ELSE db
       /\ resp' = Resp("edge", action, sid, "response", TRUE, "", url, "real_browser")
     ELSE
       /\ resp' = Resp("edge", action, sid, "response", FALSE,
                       IF up THEN "Browser server error: 404" ELSE "fetch failed", url, "")
       /\ UNCHANGED db
  /\ UNCHANGED << program, objs, browserSessions, screenshotIntervals, timers,
                  inflight >>
  /\ UNCHANGED serverVars

handleScreenshot(sid, userId, up) ==
  /\ program = "edge"
  /\ fetched' = "/api/browser"
  /\ caller' = userId
  /\ UNCHANGED owner
  /\ UNCHANGED hookVars
  /\ UNCHANGED srvIntervals
  /\ UNCHANGED initSource
  /\ UNCHANGED field
  /\ UNCHANGED genAI
  /\ Ready
  /\ inserted' = << >>
  /\ resp' = Resp("edge", "screenshot", sid, "response", TRUE, "", "",
                  IF FetchOk(up, "/api/browser") THEN "real_browser" ELSE "fallback")
  /\ UNCHANGED << program, inflight >>
  /\ UNCHANGED browserVars
  /\ UNCHANGED serverVars

handlePauseSession(sid, userId) ==
  /\ program = "edge"
  /\ UNCHANGED fetched
  /\ caller' = userId
  /\ UNCHANGED owner
  /\ UNCHANGED hookVars
  /\ UNCHANGED srvIntervals
  /\ UNCHANGED initSource
  /\ UNCHANGED field
  /\ UNCHANGED genAI
  /\ Ready
  /\ inserted' = << >>
  /\ db' = updateStatus(db, sid, "paused")
  /\ resp' = Resp("edge", "pause_session", sid, "response", TRUE, "", "", "")
  /\ UNCHANGED << program, objs, browserSessions, screenshotIntervals, timers,
                  inflight >>
  /\ UNCHANGED serverVars

handleResumeSession(sid, userId) ==
  /\ program = "edge"
  /\ UNCHANGED fetched
  /\ caller' = userId
  /\ UNCHANGED owner
  /\ UNCHANGED hookVars
  /\ UNCHANGED srvIntervals
  /\ UNCHANGED initSource
  /\ UNCHANGED field
  /\ UNCHANGED genAI
  /\ Ready
  /\ inserted' = << >>
  /\ db' = updateStatus(db, sid, "active")
  /\ resp' = Resp("edge", "resume_session", sid, "response", TRUE, "", "", "")
  /\ UNCHANGED << program, objs, browserSessions, screenshotIntervals, timers,
                  inflight >>
  /\ UNCHANGED serverVars

\* handleStopSession: the fetch of the close route (its response is not read),
\* then the update of the row; a rejected fetch is rethrown as "Stop failed".
handleStopSession(sid, userId, up) ==
  /\ program = "edge"
  /\ fetched' = "/sessions/:sessionId/close"
  /\ caller' = userId
  /\ UNCHANGED owner
  /\ UNCHANGED hookVars
  /\ UNCHANGED srvIntervals
  \* history: a stop request ends the lifetime the last init opened
  /\ initSource' = [initSource EXCEPT ![sid] = ""]
  /\ UNCHANGED field
  /\ UNCHANGED genAI
  /\ Ready
  /\ inserted' = << >>
  /\ IF up THEN CloseRoute(sid, TRUE)
     ELSE /\ resp' = Resp("edge", "stop_session", sid, "response", FALSE,
                          "Stop failed", "", "")
          /\ UNCHANGED << inflight, db, browserSessions, screenshotIntervals, timers >>
  /\ UNCHANGED << program, objs >>
  /\ UNCHANGED serverVars

\* The actions the switch of the serve handler has a case for.
EdgeRequests == {"start_session", "init", "navigate", "click", "type", "screenshot",
                 "ai_action", "pause_session", "resume_session", "stop_session"}

\* How the authentication of a request fails: the Authorization header is
\* missing, or supabase.auth.getUser returns an error or no user.
AuthFailures == {"missing", "failed"}

\* A serve handler whose authentication comes after the switch.
serveUnauthenticated_Mutant(sid, action, auth) ==
  /\ program = "edge"
  /\ UNCHANGED fetched
  /\ UNCHANGED caller
  /\ UNCHANGED owner
  /\ UNCHANGED hookVars
  /\ UNCHANGED srvIntervals
  /\ UNCHANGED initSource
  /\ UNCHANGED field
  /\ UNCHANGED genAI
  /\ Ready
  /\ inserted' = << >>
  /\ db' = IF action = "pause_session" THEN updateStatus(db, sid, "paused") ELSE db
  /\ resp' = Resp("edge", action, sid, "response", FALSE,
                  IF auth = "missing" THEN "No authorization header"
                  ELSE "Authentication failed", "", "")
  /\ UNCHANGED << program, inflight, objs, browserSessions, screenshotIntervals, timers >>
  /\ UNCHANGED serverVars

\* The serve handler for a request that does not pass the authentication: the
\* throw leaves the try block before the switch, the catch answers.
serveUnauthenticated(sid, action, auth) ==
  /\ program = "edge"
  /\ UNCHANGED fetched
  /\ UNCHANGED caller
  /\ UNCHANGED owner
  /\ UNCHANGED hookVars
  /\ UNCHANGED srvIntervals
  /\ UNCHANGED initSource
  /\ UNCHANGED field
  /\ UNCHANGED genAI
  /\ Ready
  /\ inserted' = << >>
  /\ resp' = Resp("edge", action, sid, "response", FALSE,
                  IF auth = "missing" THEN "No authorization header"
                  ELSE "Authentication failed", "", "")
  /\ UNCHANGED << program, inflight >>
  /\ UNCHANGED browserVars
  /\ UNCHANGED serverVars

\* The serve handler for a CORS preflight: an OPTIONS request, which carries no
\* Authorization header, is answered with the CORS headers and a null body
\* (type "preflight": no success flag, no error) before anything is read.
servePreflight ==
  /\ program = "edge"
  /\ UNCHANGED fetched
  /\ UNCHANGED caller
  /\ UNCHANGED owner
  /\ UNCHANGED hookVars
  /\ UNCHANGED srvIntervals
  /\ UNCHANGED initSource
  /\ UNCHANGED field
  /\ UNCHANGED genAI
  /\ Ready
  /\ inserted' = << >>
  /\ resp' = Resp("edge", "OPTIONS", "", "preflight", FALSE, "", "", "")
  /\ UNCHANGED << program, inflight >>
  /\ UNCHANGED browserVars
  /\ UNCHANGED serverVars

\* ---------------------------------------------------------------- AIService
\* data.message of a command that carries no message.
Undefined == "<undefined>"

AsciiUpper == "ABCDEFGHIJKLMNOPQRSTUVWXYZ"
AsciiLower == "abcdefghijklmnopqrstuvwxyz"
CharAt(s, i) == SubSeq(s, i, i)

LowerChar(ch) ==
  IF \E i \in 1..Len(AsciiUpper) : CharAt(AsciiUpper, i) = ch
    THEN CharAt(AsciiLower, CHOOSE i \in 1..Len(AsciiUpper) : CharAt(AsciiUpper, i) = ch)
    ELSE ch

\* String.prototype.toLowerCase
RECURSIVE toLowerCase(_)
toLowerCase(s) ==
  IF s = "" THEN "" ELSE LowerChar(CharAt(s, 1)) \o toLowerCase(SubSeq(s, 2, Len(s)))

\* String.prototype.includes
includes(s, sub) ==
  \E i \in 1..(Len(s) - Len(sub) + 1) : SubSeq(s, i, i + Len(sub) - 1) = sub

\* The blanks of s from position j on.
RECURSIVE Blanks(_, _)
Blanks(s, j) == IF j <= Len(s) /\ CharAt(s, j) = " " THEN 1 + Blanks(s, j + 1) ELSE 0

\* \s+(.+) matched from position j: group 1, "" when it does not match.  \s+ is
\* greedy and gives one blank back when nothing follows the blanks.
TailAt(s, j) ==
  LET n == Blanks(s, j)
      r == j + n
  IN  IF n >= 1 /\ r <= Len(s) THEN SubSeq(s, r, Len(s))
      ELSE IF n >= 2 THEN " "
      ELSE ""

Keywords == {"go to", "visit"}

\* message.match(/(?:go to|visit)\s+(.+)/i): group 1 of the leftmost match, ""
\* when there is none (messages are one line).
match(s) ==
  LET at(i, kw) == /\ i + Len(kw) - 1 <= Len(s)
                   /\ toLowerCase(SubSeq(s, i, i + Len(kw) - 1)) = kw
                   /\ TailAt(s, i + Len(kw)) # ""
      hits == {i \in 1..Len(s) : \E kw \in Keywords : at(i, kw)}
      first == CHOOSE i \in hits : \A j \in hits : i <= j
      kw == CHOOSE k \in Keywords : at(first, k)
  IN  IF hits = {} THEN "" ELSE TailAt(s, first + Len(kw))

NoAction == [action |-> "", url |-> ""]
NavigateGoogle == [action |-> "navigate", url |-> GoogleUrl]
\* What a throw statement leaves instead of a value.
Thrown == [action |-> "throw", url |-> "TypeError"]

\* The catch of JSON.parse in processCommand: the keyword fallback.  On a
\* message that is undefined, message.toLowerCase() throws.
fallback(message) ==
  IF message = Undefined THEN Thrown
  ELSE LET lower == toLowerCase(message) IN
    IF includes(lower, "search") THEN NavigateGoogle
    ELSE IF includes(lower, "go to") \/ includes(lower, "visit")
      THEN LET url == match(message)
           IN  [action |-> "navigate", url |-> IF url # "" THEN url ELSE GoogleUrl]
    ELSE NavigateGoogle

\* processCommand without its outer try/catch: what escapes the inner block.
processCommand_Mutant(message, outcome, parsed) ==
  IF outcome \in {"unreachable", "error"} THEN NavigateGoogle
  ELSE IF outcome = "parsed" THEN parsed
  ELSE fallback(message)

\* AIService.processCommand.  outcome is how the inference call ended:
\* "unreachable" (the request rejects), "error" (an error reply, no choices),
\* "unparseable" (content that JSON.parse rejects) or "parsed" (JSON.parse
\* returns parsed).  The outer catch turns every throw into the default action.
processCommand(message, outcome, parsed) ==
  IF outcome \in {"unreachable", "error"} THEN NavigateGoogle
  ELSE IF outcome = "parsed" THEN parsed
  ELSE LET inner == fallback(message)
       IN  IF inner = Thrown THEN NavigateGoogle ELSE inner

Outcomes == {"unreachable", "error", "unparseable", "parsed"}

\* The instructions of a run.
Messages ==
  { Undefined, "", "zzz", "search cats", "Research", "go to example.com",
    "Go To  https://example.com", "please visit a b", "visit", "visit ", "visit  ",
    "go to", "goto x", "go to search", "visit go to y", "click the button", "GO TO X",
    "visit research.google.com", "scroll up", "type hello" }

\* What JSON.parse returns in a run when the content is JSON: two well-formed
\* actions and one of a kind executeAction does not know.
ParsedOutputs ==
  { [action |-> "navigate", url |-> "https://example.com"],
    [action |-> "click", url |-> ""],
    [action |-> "hover", url |-> ""] }

NoTranslation == [message |-> "", outcome |-> "none", parsed |-> NoAction,
                  action |-> NoAction, done |-> FALSE]

\* await aiService.processCommand(data.message)
Translate ==
  /\ program = "AIService"
  /\ UNCHANGED fetched
  /\ UNCHANGED caller
  /\ UNCHANGED owner
  /\ UNCHANGED hookVars
  /\ UNCHANGED srvIntervals
  /\ UNCHANGED initSource
  /\ UNCHANGED field
  /\ UNCHANGED genAI
  /\ ~translation.done
  /\ translation' = [translation EXCEPT
                       !.action = processCommand(translation.message, translation.outcome,
                                                 translation.parsed),
                       !.done = TRUE]
  /\ UNCHANGED << program, inflight, resp, inserted, launched, browser, page,
                  screenshotInterval, connectedClients, lastInit >>
  /\ UNCHANGED browserVars

\* ---------------------------------------------------------------- type
\* The implementations of the type primitive: RealBrowser.type (part_003) and
\* case 'type' of executeAction (server.js, cloudai-websocket).
TypeImpls == {"RealBrowser.type", "executeAction"}
\* What the field holds before the call, and the text to type.
FieldContents == {"", "old", "new"}
\* Where focusing the field leaves the caret.
Carets == {"start", "end"}

NoField == [impl |-> "", prior |-> "", text |-> "", caret |-> "", content |-> "",
            done |-> FALSE]

\* page.type(selector, text) on a focused field: the keystrokes replace the
\* selection when there is one and are inserted at the caret otherwise; no
\* keystroke, no change.
pageType(content, selected, caret, text) ==
  IF text = "" THEN content
  ELSE IF selected THEN text
  ELSE IF caret = "end" THEN content \o text
  ELSE text \o content

\* The content of the field after the type primitive of impl.  RealBrowser.type
\* clicks the field and presses Control+A (which selects its content) before
\* page.type; executeAction calls page.type alone.
typeInto(impl, prior, caret, text) ==
  IF impl = "RealBrowser.type"
    THEN pageType(prior, prior # "", caret, text)
    ELSE pageType(prior, FALSE, caret, text)

\* One successful call of the type primitive.
TypeText ==
  /\ program = "page"
  /\ UNCHANGED fetched
  /\ UNCHANGED caller
  /\ UNCHANGED owner
  /\ UNCHANGED hookVars
  /\ UNCHANGED srvIntervals
  /\ UNCHANGED genAI
  /\ ~field.done
  /\ field' = [field EXCEPT
                 !.content = typeInto(field.impl, field.prior, field.caret, field.text),
                 !.done = TRUE]
  /\ UNCHANGED << program, inflight, resp, inserted, translation, initSource >>
  /\ UNCHANGED browserVars
  /\ UNCHANGED << launched, browser, page, screenshotInterval, connectedClients, lastInit >>

\* ---------------------------------------------------------------- server.js
\* startScreenshotStream: the timers running after it, of n running before:
\* the timer the global holds is cleared, then a new one is set.
startScreenshotStream(n, held) == (IF held THEN n - 1 ELSE n) + 1

\* initializeBrowser after the launch: outcome is where the try block ends:
\* "ok", "launch_failed", "page_failed" (newPage or setViewport rejects) or
\* "goto_failed" (the first page.goto rejects).  The globals are assigned as
\* far as the block got; startScreenshotStream runs at its end only.
initializeBrowser(outcome) ==
  LET b == Len(launched) + 1 IN
    /\ launched' = IF outcome = "launch_failed" THEN launched
                   ELSE Append(launched, "live")
    /\ browser' = IF outcome = "launch_failed" THEN browser ELSE b
    /\ page' = IF outcome \in {"ok", "goto_failed"} THEN b ELSE page
    /\ screenshotInterval' = IF outcome = "ok" THEN TRUE ELSE screenshotInterval
    /\ srvIntervals' = IF outcome = "ok"
                         THEN startScreenshotStream(srvIntervals, screenshotInterval)
                         ELSE srvIntervals

SrvInitOutcomes == {"ok", "launch_failed", "page_failed", "goto_failed"}

\* wss.on('connection')
SrvConnect(c) ==
  /\ program = "server"
  /\ UNCHANGED fetched
  /\ UNCHANGED caller
  /\ UNCHANGED owner
  /\ UNCHANGED hookVars
  /\ UNCHANGED srvIntervals
  /\ UNCHANGED initSource
  /\ UNCHANGED field
  /\ UNCHANGED genAI
  /\ Ready
  /\ inserted' = << >>
  /\ c \notin connectedClients
  /\ connectedClients' = connectedClients \cup {c}
  /\ UNCHANGED << program, inflight, resp, launched, browser, page,
                  screenshotInterval, lastInit, translation >>
  /\ UNCHANGED browserVars

\* ws.on('close')
SrvDisconnect(c) ==
  /\ program = "server"
  /\ UNCHANGED fetched
  /\ UNCHANGED caller
  /\ UNCHANGED owner
  /\ UNCHANGED hookVars
  /\ UNCHANGED initSource
  /\ UNCHANGED field
  /\ UNCHANGED genAI
  /\ Ready
  /\ inserted' = << >>
  /\ c \in connectedClients
  /\ connectedClients' = connectedClients \ {c}
  /\ screenshotInterval' = IF connectedClients' = {} THEN FALSE ELSE screenshotInterval
  /\ srvIntervals' = IF connectedClients' = {} /\ screenshotInterval
                       THEN srvIntervals - 1 ELSE srvIntervals
  /\ UNCHANGED << program, inflight, resp, launched, browser, page, lastInit,
                  translation >>
  /\ UNCHANGED browserVars

\* case 'init': initializeBrowser up to `await puppeteer.launch(...)`; a
\* browser the global holds is closed first.
SrvInit(c) ==
  /\ program = "server"
  /\ UNCHANGED fetched
  /\ UNCHANGED caller
  /\ UNCHANGED owner
  /\ UNCHANGED hookVars
  /\ UNCHANGED srvIntervals
  /\ UNCHANGED initSource
  /\ UNCHANGED field
  /\ UNCHANGED genAI
  /\ Ready
  /\ inserted' = << >>
  /\ c \in connectedClients
  /\ CanPark
  /\ Len(launched) < MaxObjs
  /\ launched' = IF browser # 0 THEN [launched EXCEPT ![browser] = "closed"]
                 ELSE launched
  /\ inflight' = Park(Handler("launch", c, 0, "init", "", FALSE))
  /\ UNCHANGED << program, resp, browser, page, screenshotInterval, connectedClients,
                  lastInit, translation >>
  /\ UNCHANGED browserVars

\* initializeBrowser returned: the init_response.
SrvInitDone(h, outcome) ==
  /\ program = "server"
  /\ UNCHANGED fetched
  /\ UNCHANGED caller
  /\ UNCHANGED owner
  /\ UNCHANGED hookVars
  /\ UNCHANGED initSource
  /\ UNCHANGED field
  /\ UNCHANGED genAI
  /\ Ready
  /\ inserted' = << >>
  /\ h \in Parked
  /\ h.kind = "launch"
  /\ initializeBrowser(outcome)
  /\ inflight' = Unpark(h)
  /\ resp' = Resp("ws", "init", h.sid, "init_response", outcome = "ok",
                  IF outcome = "ok" THEN "" ELSE "Browser initialization error", "", "")
  /\ lastInit' = IF outcome = "ok" THEN "ok" ELSE "failed"
  /\ UNCHANGED << program, connectedClients, translation >>
  /\ UNCHANGED browserVars

\* ws.on('message'), case 'command', up to `await axios.post(...)` in
\* processCommand: the request to the inference service carries no timeout.
SrvCommand(c) ==
  /\ program = "server"
  /\ UNCHANGED fetched
  /\ UNCHANGED caller
  /\ UNCHANGED owner
  /\ UNCHANGED hookVars
  /\ UNCHANGED srvIntervals
  /\ UNCHANGED initSource
  /\ UNCHANGED field
  /\ UNCHANGED genAI
  /\ Ready
  /\ inserted' = << >>
  /\ c \in connectedClients
  /\ CanPark
  /\ inflight' = Park(Handler("translate", c, 0, "command", "", FALSE))
  /\ UNCHANGED << program, resp >>
  /\ UNCHANGED browserVars
  /\ UNCHANGED serverVars

\* The inference call settled (it replied or it failed) and processCommand
\* returned action, with url when it is a navigate; then executeAction up to
\* its first await on the page.
SrvTranslated(h, action, url) ==
  /\ program = "server"
  /\ UNCHANGED fetched
  /\ UNCHANGED caller
  /\ UNCHANGED owner
  /\ UNCHANGED hookVars
  /\ UNCHANGED srvIntervals
  /\ UNCHANGED initSource
  /\ UNCHANGED field
  /\ UNCHANGED genAI
  /\ Ready
  /\ inserted' = << >>
  /\ h \in Parked
  /\ h.kind = "translate"
  /\ LET c == h.sid IN
       IF page = 0 THEN
         /\ resp' = Resp("ws", action, c, "command_response", FALSE,
                         "Browser not initialized", url, "")
         /\ inflight' = Unpark(h)
       ELSE IF action \in {"navigate", "click", "type", "scroll", "wait"} THEN
         /\ inflight' = Unpark(h) (+) SetToBag({Handler("command", c, page, action, url, FALSE)})
         /\ UNCHANGED resp
       ELSE
         /\ resp' = Resp("ws", action, c, "command_response", FALSE, "Unknown action",
                         url, "")
         /\ inflight' = Unpark(h)
  /\ UNCHANGED program
  /\ UNCHANGED browserVars
  /\ UNCHANGED serverVars

\* The message types the clients of the control endpoint send.
MessageTypes == {"init", "command", "pause", "resume", "stop"}

\* ws.on('message'), default: a message of a type the switch has no case for.
SrvDefault(c, type) ==
  /\ program = "server"
  /\ UNCHANGED fetched
  /\ UNCHANGED caller
  /\ UNCHANGED owner
  /\ UNCHANGED hookVars
  /\ UNCHANGED srvIntervals
  /\ UNCHANGED initSource
  /\ UNCHANGED field
  /\ UNCHANGED genAI
  /\ Ready
  /\ inserted' = << >>
  /\ c \in connectedClients
  /\ type \notin {"init", "command"}
  /\ resp' = Resp("ws", type, c, "error", FALSE, "Unknown message type", "", "")
  /\ UNCHANGED << program, inflight >>
  /\ UNCHANGED browserVars
  /\ UNCHANGED serverVars

\* executeAction returned: the command_response, with the result of the try
\* block or of its catch.
SrvCommandDone(h, ok) ==
  /\ program = "server"
  /\ UNCHANGED fetched
  /\ UNCHANGED caller
  /\ UNCHANGED owner
  /\ UNCHANGED hookVars
  /\ UNCHANGED srvIntervals
  /\ UNCHANGED initSource
  /\ UNCHANGED field
  /\ UNCHANGED genAI
  /\ Ready
  /\ inserted' = << >>
  /\ h \in Parked
  /\ h.kind = "command"
  /\ ok => launched[h.obj] = "live"
  /\ inflight' = Unpark(h)
  /\ resp' = Resp("ws", h.action, h.sid, "command_response", ok,
                  IF ok THEN "" ELSE DriverError(h.action), h.url, "")
  /\ UNCHANGED program
  /\ UNCHANGED browserVars
  /\ UNCHANGED serverVars

\* The setInterval callback of startScreenshotStream, up to
\* `await page.screenshot(...)`.
SrvTimerTick ==
  /\ program = "server"
  /\ UNCHANGED fetched
  /\ UNCHANGED caller
  /\ UNCHANGED owner
  /\ UNCHANGED hookVars
  /\ UNCHANGED srvIntervals
  /\ UNCHANGED initSource
  /\ UNCHANGED field
  /\ UNCHANGED genAI
  /\ Ready
  /\ inserted' = << >>
  /\ screenshotInterval
  /\ IF page # 0 /\ connectedClients # {}
       THEN /\ CanPark
            /\ inflight' = Park(Handler("capture", "", page, "screenshot", "", FALSE))
       ELSE UNCHANGED inflight
  /\ UNCHANGED << program, resp >>
  /\ UNCHANGED browserVars
  /\ UNCHANGED serverVars

\* page.screenshot of a timer callback resolved (the frame goes to every open
\* client) or rejected (the catch logs the error).
SrvCaptureDone(h, ok) ==
  /\ program = "server"
  /\ UNCHANGED fetched
  /\ UNCHANGED caller
  /\ UNCHANGED owner
  /\ UNCHANGED hookVars
  /\ UNCHANGED srvIntervals
  /\ UNCHANGED initSource
  /\ UNCHANGED field
  /\ UNCHANGED genAI
  /\ Ready
  /\ inserted' = << >>
  /\ h \in Parked
  /\ h.kind = "capture"
  /\ ok => launched[h.obj] = "live"
  /\ inflight' = Unpark(h)
  /\ resp' = IF ok /\ connectedClients # {}
               THEN Resp("ws", "stream", "", "screenshot", TRUE, "", "", "")
               ELSE NoResp
  /\ UNCHANGED program
  /\ UNCHANGED browserVars
  /\ UNCHANGED serverVars

\* ws.send / res.json / the edge function's Response reaches the caller.
ResponseSent ==
  /\ resp # NoResp
  /\ fetched' = ""
  /\ caller' = ""
  /\ UNCHANGED owner
  /\ UNCHANGED hookVars
  /\ UNCHANGED srvIntervals
  /\ UNCHANGED initSource
  /\ UNCHANGED field
  /\ UNCHANGED genAI
  /\ resp' = NoResp
  /\ inserted' = << >>
  /\ UNCHANGED << program, inflight >>
  /\ UNCHANGED browserVars
  /\ UNCHANGED serverVars

\* ---------------------------------------------------------------- useCloudAI
\* The client hook: refs ws and reconnectAttempts, state isLoading, the
\* WebSocket objects it constructed and the reconnect timeouts it scheduled.
\* A WebSocket keeps the handlers connect attached to it for as long as it
\* lives, whether or not ws.current still refers to it.
maxReconnectAttempts == 5

\* The sockets that are connecting or open.
Alive == {i \in 1..Len(sockets) : sockets[i] \in {"CONNECTING", "OPEN"}}

WsOpen == wsCurrent # 0 /\ sockets[wsCurrent] = "OPEN"

\* connect() can be taken within the bounds: it returns early, or it
\* constructs a WebSocket.
CanConnect ==
  WsOpen \/ (Len(sockets) < MaxSockets /\ Cardinality(Alive) < MaxAlive)

\* connect(): returns when ws.current is open; otherwise assigns a new
\* WebSocket to ws.current and attaches its four handlers.
connect ==
  IF WsOpen
    THEN UNCHANGED << sockets, wsCurrent >>
    ELSE /\ sockets' = Append(sockets, "CONNECTING")
         /\ wsCurrent' = Len(sockets) + 1

\* useEffect(() => { connect(); ... }, []): the effect of the mount.
HookEffect ==
  /\ program = "useCloudAI"
  /\ UNCHANGED fetched
  /\ UNCHANGED caller
  /\ UNCHANGED owner
  /\ effect = "pending"
  /\ CanConnect
  /\ connect
  /\ effect' = "mounted"
  /\ sent' = ""
  /\ UNCHANGED << reconnectAttempts, timeouts, isLoading, awaiting >>
  /\ UNCHANGED otherVars

\* The connect the hook returns, bound to the Connect button.
HookConnect ==
  /\ program = "useCloudAI"
  /\ UNCHANGED fetched
  /\ UNCHANGED caller
  /\ UNCHANGED owner
  /\ effect = "mounted"
  /\ CanConnect
  /\ connect
  /\ sent' = ""
  /\ UNCHANGED << reconnectAttempts, timeouts, isLoading, awaiting, effect >>
  /\ UNCHANGED otherVars

\* startBrowser: connect() when ws.current is not open, an init message on it
\* otherwise.
startBrowser ==
  /\ program = "useCloudAI"
  /\ UNCHANGED fetched
  /\ UNCHANGED caller
  /\ UNCHANGED owner
  /\ effect = "mounted"
  /\ CanConnect
  /\ connect
  /\ sent' = IF WsOpen THEN "init" ELSE ""
  /\ UNCHANGED << reconnectAttempts, timeouts, isLoading, awaiting, effect >>
  /\ UNCHANGED otherVars

\* onopen of socket i: the counter is reset, then the init message goes to
\* ws.current, which takes it when it is open (send throws on a connecting
\* socket and drops the data on a closing or closed one).
SocketOpen(i) ==
  /\ program = "useCloudAI"
  /\ UNCHANGED fetched
  /\ UNCHANGED caller
  /\ UNCHANGED owner
  /\ sockets[i] = "CONNECTING"
  /\ sockets' = [sockets EXCEPT ![i] = "OPEN"]
  /\ reconnectAttempts' = 0
  /\ sent' = IF wsCurrent # 0 /\ sockets'[wsCurrent] = "OPEN" THEN "init" ELSE ""
  /\ UNCHANGED << wsCurrent, timeouts, isLoading, awaiting, effect >>
  /\ UNCHANGED otherVars

\* The reconnect branch of onclose, guarded by the counter.
onclose ==
  IF reconnectAttempts < maxReconnectAttempts
    THEN /\ reconnectAttempts' = reconnectAttempts + 1
         /\ timeouts' = timeouts + 1
    ELSE UNCHANGED << reconnectAttempts, timeouts >>

\* A close whose onclose schedules a reconnect whatever the counter says.
SocketClose_Mutant(i) ==
  /\ program = "useCloudAI"
  /\ UNCHANGED fetched
  /\ UNCHANGED caller
  /\ UNCHANGED owner
  /\ sockets[i] \in {"CONNECTING", "OPEN", "CLOSING"}
  /\ sockets' = [sockets EXCEPT ![i] = "CLOSED"]
  /\ reconnectAttempts' = reconnectAttempts + 1
  /\ timeouts' = timeouts + 1
  /\ awaiting' = awaiting \ {i}
  /\ sent' = ""
  /\ UNCHANGED << wsCurrent, isLoading, effect >>
  /\ UNCHANGED otherVars

\* Socket i closes: the connection failed (onerror only sets the status, then
\* onclose), the server or the network closed it, or its close() completed.
\* A response the server owed on it is lost.
SocketClose(i) ==
  /\ program = "useCloudAI"
  /\ UNCHANGED fetched
  /\ UNCHANGED caller
  /\ UNCHANGED owner
  /\ sockets[i] \in {"CONNECTING", "OPEN", "CLOSING"}
  /\ sockets' = [sockets EXCEPT ![i] = "CLOSED"]
  /\ onclose
  /\ awaiting' = awaiting \ {i}
  /\ sent' = ""
  /\ UNCHANGED << wsCurrent, isLoading, effect >>
  /\ UNCHANGED otherVars

\* The callback of a setTimeout that onclose scheduled: connect().
ReconnectTimeout ==
  /\ program = "useCloudAI"
  /\ UNCHANGED fetched
  /\ UNCHANGED caller
  /\ UNCHANGED owner
  /\ timeouts > 0
  /\ timeouts' = timeouts - 1
  /\ CanConnect
  /\ connect
  /\ sent' = ""
  /\ UNCHANGED << reconnectAttempts, isLoading, awaiting, effect >>
  /\ UNCHANGED otherVars

\* sendCommand past its early return: ws.current is open.
sendCommand ==
  /\ program = "useCloudAI"
  /\ UNCHANGED fetched
  /\ UNCHANGED caller
  /\ UNCHANGED owner
  /\ effect = "mounted"
  /\ WsOpen
  /\ isLoading' = TRUE
  /\ awaiting' = awaiting \cup {wsCurrent}
  /\ sent' = "command"
  /\ UNCHANGED << sockets, wsCurrent, reconnectAttempts, timeouts, effect >>
  /\ UNCHANGED otherVars

\* The message types that answer a command.
CommandAnswers == {"command_response", "error"}

\* onmessage of socket i, cases 'command_response' and 'error': the answer to
\* the command that was sent on it.
SocketMessage(i, type) ==
  /\ program = "useCloudAI"
  /\ UNCHANGED fetched
  /\ UNCHANGED caller
  /\ UNCHANGED owner
  /\ i \in awaiting
  /\ sockets[i] = "OPEN"
  /\ type \in CommandAnswers
  /\ isLoading' = FALSE
  /\ awaiting' = awaiting \ {i}
  /\ sent' = ""
  /\ UNCHANGED << sockets, wsCurrent, reconnectAttempts, timeouts, effect >>
  /\ UNCHANGED otherVars

\* The cleanup of the effect (unmount): ws.current.close().
HookCleanup ==
  /\ program = "useCloudAI"
  /\ UNCHANGED fetched
  /\ UNCHANGED caller
  /\ UNCHANGED owner
  /\ effect = "mounted"
  /\ effect' = "cleanup"
  /\ sockets' = IF wsCurrent # 0 /\ sockets[wsCurrent] \in {"CONNECTING", "OPEN"}
                  THEN [sockets EXCEPT ![wsCurrent] = "CLOSING"]
                  ELSE sockets
  /\ sent' = ""
  /\ UNCHANGED << wsCurrent, reconnectAttempts, timeouts, isLoading, awaiting >>
  /\ UNCHANGED otherVars

HookSteps ==
  \/ HookEffect
  \/ HookConnect
  \/ startBrowser
  \/ \E i \in 1..Len(sockets) : SocketOpen(i)
  \/ \E i \in 1..Len(sockets) : SocketClose(i)
  \/ ReconnectTimeout
  \/ sendCommand
  \/ \E i \in 1..Len(sockets), type \in CommandAnswers : SocketMessage(i, type)
  \/ HookCleanup

\* ---------------------------------------------------------------- specification
InitState ==
  /\ objs = << >>
  /\ browserSessions = [s \in Sessions |-> 0]
  /\ screenshotIntervals = [s \in Sessions |-> 0]
  /\ timers = {}
  /\ inflight = EmptyBag
  /\ db = [s \in Sessions |-> NoRow]
  /\ resp = NoResp
  /\ inserted = << >>
  /\ launched = << >>
  /\ browser = 0
  /\ page = 0
  /\ screenshotInterval = FALSE
  /\ connectedClients = {}
  /\ lastInit = "none"
  /\ fetched = ""
  /\ caller = ""
  /\ owner = [s \in Sessions |-> ""]
  /\ srvIntervals = 0
  /\ sockets = << >>
  /\ wsCurrent = 0
  /\ reconnectAttempts = 0
  /\ timeouts = 0
  /\ isLoading = FALSE
  /\ awaiting = {}
  /\ effect = "pending"
  /\ sent = ""
  /\ initSource = [s \in Sessions |-> ""]

\* BROWSER runs with or without GEMINI_API_KEY in its environment.
InitBrowser ==
  program = "BROWSER" /\ InitState /\ translation = NoTranslation /\ genAI \in BOOLEAN
  /\ field = NoField
InitEdge ==
  program = "edge" /\ InitState /\ translation = NoTranslation /\ genAI = FALSE
  /\ field = NoField
InitServer ==
  program = "server" /\ InitState /\ translation = NoTranslation /\ genAI = FALSE
  /\ field = NoField
\* AIService alone: one call of processCommand on each instruction, outcome of
\* the inference call and parsed content.
InitAIService ==
  /\ program = "AIService"
  /\ InitState
  /\ genAI = FALSE
  /\ field = NoField
  /\ \E m \in Messages, o \in Outcomes, p \in ParsedOutputs :
       translation = [message |-> m, outcome |-> o, parsed |-> p, action |-> NoAction,
                      done |-> FALSE]
\* The type primitive alone: one call on each implementation, prior content of
\* the field, text and caret position.
InitPage ==
  /\ program = "page"
  /\ InitState
  /\ translation = NoTranslation
  /\ genAI = FALSE
  /\ \E impl \in TypeImpls, prior \in FieldContents, text \in FieldContents,
        caret \in Carets :
       field = [impl |-> impl, prior |-> prior, text |-> text, caret |-> caret,
                content |-> prior, done |-> FALSE]
\* The hook alone, constructed and not yet mounted.
InitHook ==
  program = "useCloudAI" /\ InitState /\ translation = NoTranslation /\ genAI = FALSE
  /\ field = NoField
Init == InitBrowser \/ InitEdge \/ InitServer \/ InitAIService \/ InitPage \/ InitHook

BrowserSteps ==
  \/ \E sid \in Sessions, action \in WsActions :
       \E url \in (IF action = "navigate" THEN URLs ELSE {""}) :
         WsOnMessage(sid, action, url)
  \/ \E h \in Parked, outcome \in InitOutcomes : WsInitializeDone(h, outcome)
  \/ \E h \in Parked, resolved \in URLs \cup {GoogleUrl, ""} : WsActionOk(h, resolved)
  \/ \E h \in Parked : WsActionFail(h)
  \/ \E h \in Parked : WsActionLate(h)
  \/ \E h \in Parked, outcome \in AIOutcomes, derived \in AIDerived :
       \E url \in (IF derived = "navigate" THEN URLs ELSE {""}) :
         WsAIActionDone(h, outcome, derived, url)
  \/ \E t \in ObjIds : TimerTick(t)
  \/ \E o \in ObjIds : WsClose(o)
  \/ \E h \in Parked, ok \in BOOLEAN : CaptureDone(h, ok)
  \/ \E h \in Parked : CaptureLate(h)
  \/ \E sid \in Sessions : HttpCloseSession(sid)
  \/ \E h \in Parked : CloseDone(h)

NextBrowser == BrowserSteps \/ ResponseSent

EdgeSteps ==
  \/ \E sid \in Sessions, userId \in Users : handleStartSession(sid, userId)
  \/ \E sid \in Sessions, userId \in Users, up \in BOOLEAN :
       handleInitBrowser(sid, userId, up)
  \/ \E sid \in Sessions, userId \in Users, action \in EdgeActions, up \in BOOLEAN :
       \E url \in (IF action = "navigate" THEN URLs ELSE {""}) :
         handleForward(sid, userId, action, url, up)
  \/ \E sid \in Sessions, userId \in Users, up \in BOOLEAN :
       handleScreenshot(sid, userId, up)
  \/ \E sid \in Sessions, userId \in Users : handlePauseSession(sid, userId)
  \/ \E sid \in Sessions, userId \in Users : handleResumeSession(sid, userId)
  \/ \E sid \in Sessions, userId \in Users, up \in BOOLEAN :
       handleStopSession(sid, userId, up)
  \/ \E sid \in Sessions, action \in EdgeRequests, auth \in AuthFailures :
       serveUnauthenticated(sid, action, auth)
  \/ servePreflight

NextEdge == EdgeSteps \/ ResponseSent

ServerSteps ==
  \/ \E c \in Clients : SrvConnect(c)
  \/ \E c \in Clients : SrvDisconnect(c)
  \/ \E c \in Clients : SrvInit(c)
  \/ \E h \in Parked, outcome \in SrvInitOutcomes : SrvInitDone(h, outcome)
  \/ \E c \in Clients : SrvCommand(c)
  \/ \E h \in Parked, action \in SrvActions :
       \E url \in (IF action = "navigate" THEN URLs ELSE {""}) :
         SrvTranslated(h, action, url)
  \/ \E h \in Parked, ok \in BOOLEAN : SrvCommandDone(h, ok)
  \/ \E c \in Clients, type \in MessageTypes : SrvDefault(c, type)
  \/ SrvTimerTick
  \/ \E h \in Parked, ok \in BOOLEAN : SrvCaptureDone(h, ok)

NextServer == ServerSteps \/ ResponseSent

NextAIService == Translate

NextHook == HookSteps

Next ==
  \/ BrowserSteps \/ EdgeSteps \/ ServerSteps \/ ResponseSent \/ Translate \/ TypeText
  \/ HookSteps

SpecBrowser == InitBrowser /\ [][NextBrowser]_vars
SpecEdge == InitEdge /\ [][NextEdge]_vars
SpecServer == InitServer /\ [][NextServer]_vars
SpecAIService == InitAIService /\ [][NextAIService]_vars
SpecHook == InitHook /\ [][NextHook]_vars
\* The hook with the progress its environment gives: a socket that is
\* connecting or closing settles (it opens, fails or finishes its close), a
\* scheduled timeout fires, and the server answers a command on a socket for as
\* long as that socket stays open.
SocketSettles ==
  \E i \in 1..Len(sockets) :
    sockets[i] \in {"CONNECTING", "CLOSING"} /\ (SocketOpen(i) \/ SocketClose(i))
SpecHookFair ==
  /\ InitHook
  /\ [][NextHook]_vars
  /\ WF_vars(SocketSettles)
  /\ WF_vars(ReconnectTimeout)
  /\ WF_vars(\E i \in 1..Len(sockets), type \in CommandAnswers : SocketMessage(i, type))
\* server.js with the progress its own timeouts give: a response being sent is
\* sent, and a driver call (page.goto, waitForSelector, puppeteer.launch,
\* page.screenshot) resolves or times out.  Nothing bounds the reply of the
\* inference service: axios.post is called without a timeout.
SpecServerFair ==
  /\ InitServer
  /\ [][NextServer]_vars
  /\ WF_vars(ResponseSent)
  /\ WF_vars(\E h \in Parked, outcome \in SrvInitOutcomes : SrvInitDone(h, outcome))
  /\ WF_vars(\E h \in Parked, ok \in BOOLEAN : SrvCommandDone(h, ok))
  /\ WF_vars(\E h \in Parked, ok \in BOOLEAN : SrvCaptureDone(h, ok))
Spec == Init /\ [][Next]_vars


\* ---------------------------------------------------------------- observations
\* This step parked a handler of kind k (for session or client sid): the call
\* it awaits was made on the driver.
NewlyParked(k, sid) ==
  \E h \in BagToSet(inflight') :
    /\ h.kind = k
    /\ h.sid = sid
    /\ inflight'[h] > (IF h \in Parked THEN inflight[h] ELSE 0)

\* This step is the continuation of the parked handler h.
Continued(h) == h \in Parked /\ inflight' = Unpark(h)

\* This step answered a request without awaiting anything.
AnsweredAtOnce == resp = NoResp /\ resp' # NoResp /\ inflight' = inflight

LiveDrivers(sid) ==
  {o \in 1..Len(objs) : objs[o].sessionId = sid /\ objs[o].browser = "live"}

LiveLaunched == {b \in 1..Len(launched) : launched[b] = "live"}

\* server.js serves its one session: the last init succeeded and its page lives.
SrvActive == lastInit = "ok" /\ page # 0 /\ launched[page] = "live"

NotReadyErrors == {"Session not found. Initialize first.", "Browser not ready",
                   "Browser not initialized"}

\* ---------------------------------------------------------------- claims

\* C1: init is idempotent: an init for a session that is already active is
\* answered with success and acquires no driver again (no browser is launched,
\* the driver the first init bound is neither closed nor replaced).
C1_InitIdempotent ==
  [][ /\ \A s \in Sessions :
           ( /\ program = "BROWSER"
             /\ browserSessions[s] # 0
             /\ AnsweredAtOnce
             /\ resp'.req = "init"
             /\ resp'.sid = s )
           => (resp'.success /\ objs' = objs /\ browserSessions' = browserSessions)
      /\ \A c \in Clients :
           (program = "server" /\ SrvActive)
           => (~NewlyParked("launch", c) /\ (launched' = launched \/ Len(launched') > Len(launched)))
    ]_vars

\* C2: at most one live browser driver (launched and not yet closed) exists for
\* a session id in every reachable state.
C2_OneLiveDriver ==
  /\ \A s \in Sessions : Cardinality(LiveDrivers(s)) <= 1
  /\ Cardinality(LiveLaunched) <= 1

\* C3: an action or command for a session whose status is not active is
\* answered with a not-ready failure and invokes no driver primitive.
C3_DispatchRequiresActive ==
  [][ /\ \A s \in Sessions :
           (program = "BROWSER" /\ db[s].status # "active")
           => /\ ~NewlyParked("action", s)
              /\ (AnsweredAtOnce /\ resp'.req \in Primitives /\ resp'.sid = s)
                 => resp'.error \in NotReadyErrors
      /\ \A c \in Clients :
           (program = "server" /\ lastInit # "ok")
           => /\ ~NewlyParked("command", c)
              /\ (AnsweredAtOnce /\ resp'.type = "command_response" /\ resp'.sid = c)
                 => resp'.error \in NotReadyErrors
    ]_vars

\* C4: between pause(s) and resume(s) every dispatch on s fails with
\* SessionPaused (and is not forwarded to the browser server).
C4_PausedDispatchRejected ==
  (resp.via = "edge" /\ resp.req \in EdgeForwarded /\ db[resp.sid].status = "paused")
  => (~resp.success /\ resp.error = "SessionPaused")

\* C5: stop (or close) on a session that is already stopped, closed or unknown
\* returns success and changes no state.
C5_TeardownIdempotent ==
  [][ \A s \in Sessions :
        /\ ( /\ program = "edge"
             /\ db[s].status \in {"none", "stopped", "closed"}
             /\ resp = NoResp
             /\ resp'.req = "stop_session"
             /\ resp'.sid = s )
           => (resp'.success /\ UNCHANGED browserVars)
        /\ ( /\ program = "BROWSER"
             /\ browserSessions[s] = 0
             /\ AnsweredAtOnce
             /\ resp'.req = "close"
             /\ resp'.sid = s )
           => (resp'.success /\ UNCHANGED browserVars)
    ]_vars

\* C6: the screenshot streamer never has two captures in flight at the same
\* time for one session.
C6_NoOverlappingCaptures ==
  \A h \in Parked :
    h.kind = "capture"
    => /\ inflight[h] <= 1
       /\ \A g \in Parked : (g.kind = "capture" /\ g.sid = h.sid) => g = h

\* C7: after stop/close of a session completes, the session has no bound
\* driver (its browser is closed) and no screenshot timer ever created for it
\* is still running.
C7_CloseReleasesAll ==
  (resp.req \in {"close", "stop_session"} /\ resp.success)
  => /\ \A o \in LiveDrivers(resp.sid) : ~objs[o].isReady
     /\ \A t \in timers : objs[t].sessionId # resp.sid

\* C8: a driver acquisition failure is never surfaced as an error: every init
\* is answered with success and leaves the session usable, whatever the launch
\* of the browser did.
C8_AcquisitionFailureHidden ==
  [][ /\ \A h \in Parked :
           (h.kind \in {"init", "launch"} /\ Continued(h)) => resp'.success
      /\ (resp = NoResp /\ resp'.via = "edge" /\ resp'.req = "init") => resp'.success
    ]_vars

\* C9: a per-action failure (the driver rejects the primitive: element not
\* found, navigation timeout) is returned as a failed result with an error
\* message and does not terminate the session: the maps, the driver objects,
\* the timers and the stored row are as before the failure, so the session
\* still takes the next action.
C9_ActionFailureKeepsSession ==
  [][ \A h \in Parked :
        ( /\ h.kind \in {"action", "command"}
          /\ Continued(h)
          /\ ~resp'.success
          /\ resp'.error = DriverError(h.action) )
        => /\ resp'.type \in {"error", "command_response"}
           /\ resp'.error # ""
           /\ UNCHANGED browserVars
           /\ UNCHANGED serverVars
    ]_vars

\* C9 witness: a click was just answered with ElementNotFound and its session
\* is still registered, ready, live and streaming.
C9_Witness ==
  /\ resp.via = "ws"
  /\ resp.req = "click"
  /\ resp.type = "error"
  /\ resp.error = "ElementNotFound"
  /\ resp.sid \in Sessions
  /\ browserSessions[resp.sid] # 0
  /\ objs[browserSessions[resp.sid]].isReady
  /\ objs[browserSessions[resp.sid]].browser = "live"
  /\ screenshotIntervals[resp.sid] \in timers

\* C10: on an active session a navigate to u fails only when the load itself
\* fails; otherwise it returns success with the resolved URL, and the stored
\* row then has current URL u and last action navigate, on the WebSocket and on
\* the request/response surface.
C10_NavigateRecorded ==
  ( /\ resp.req = "navigate"
    /\ resp.sid \in Sessions
    /\ \/ resp.via = "ws" /\ program = "BROWSER" /\ browserSessions[resp.sid] # 0
       \/ resp.via = "edge" /\ db[resp.sid].status = "active"
    /\ resp.error \notin {"NavigationTimeout", "fetch failed"} )
  => /\ resp.success
     /\ resp.via = "ws" => resp.pageUrl # ""
     /\ db[resp.sid].current_url = resp.url
     /\ db[resp.sid].last_action = "navigate"

\* C11: every dispatched action appends exactly one Action/ActionResult entry
\* to its session's history, whether the action succeeded or failed.
C11_EveryActionLogged ==
  [][ \A h \in Parked :
        (h.kind = "action" /\ Continued(h)) => inserted' = logAction(h.sid, h.action)
    ]_vars

\* C12: stopped and closed are terminal: once the stored status of a session id
\* is stopped or closed, no step sets it back to active or paused, and no step
\* binds a driver to the id again.
C12_TerminalStatus ==
  [][ \A s \in Sessions :
        db[s].status \in {"stopped", "closed"}
        => /\ db'[s].status \notin {"active", "paused"}
           /\ browserSessions[s] = 0 => browserSessions'[s] = 0
    ]_vars

\* C13: starting a session under an id whose stored session is live (active or
\* paused) fails with DuplicateSession and leaves the stored row as it was.
C13_DuplicateSessionRejected ==
  [][ \A s \in Sessions :
        ( /\ program = "edge"
          /\ db[s].status \in {"active", "paused"}
          /\ resp = NoResp
          /\ resp'.req = "start_session"
          /\ resp'.sid = s )
        => (~resp'.success /\ resp'.error = "DuplicateSession" /\ db'[s] = db[s])
    ]_vars

\* C14: when a stop/close was served while an init or a dispatch of the same
\* session was in flight, then once the last of the session's in-flight
\* handlers has finished, the driver that handler worked on is released (its
\* browser is not live) and its screenshot timer is not running.
C14_TeardownWinsOverInFlight ==
  [][ \A h \in Parked :
        ( /\ h.stale
          /\ Continued(h)
          /\ ~\E g \in BagToSet(inflight') :
                g.sid = h.sid /\ g.kind \in {"init", "action", "ai_action", "close"} )
        => /\ objs'[h.obj].browser # "live"
           /\ h.obj \notin timers'
    ]_vars

\* C15: when the sink of a session's screenshot stream has disconnected, the
\* stream's timer starts no further capture.
C15_DisconnectCancelsTimer ==
  [][ /\ \A t \in 1..Len(objs) :
           LET c == Handler("capture", objs[t].sessionId, t, "screenshot", "", FALSE)
           IN  objs[t].ws = "closed"
               => ~(c \in BagToSet(inflight')
                     /\ inflight'[c] > (IF c \in Parked THEN inflight[c] ELSE 0))
      /\ (program = "server" /\ connectedClients = {}) => ~NewlyParked("capture", "")
    ]_vars

\* What the BROWSER server and the store hold for session s: its map entries,
\* its row, its RealBrowser objects (with their sockets) and its timers.
Slice(s) ==
  << browserSessions[s], screenshotIntervals[s], db[s],
     {<< o, objs[o] >> : o \in {i \in 1..Len(objs) : objs[i].sessionId = s}},
     {t \in timers : objs[t].sessionId = s} >>

\* This step serves a request, or finishes a handler, of session or client id.
Subject(id) ==
  \/ \E h \in Parked : Continued(h) /\ h.sid = id
  \/ resp = NoResp /\ resp' # NoResp /\ resp'.sid = id
  \/ \E k \in {"init", "action", "ai_action", "close", "launch", "command"} :
       NewlyParked(k, id)

\* C16: sessions are isolated: a step for one session (init, action failure,
\* stop/close, disconnect) leaves every other session's driver, status and
\* stream as they were; on the single-browser server one client's init or
\* disconnect leaves the driver and stream the other clients use as they were.
C16_SessionsIsolated ==
  [][ /\ \A s, t \in Sessions :
           (s # t /\ (Subject(s) \/ Slice(s)' # Slice(s))) => Slice(t)' = Slice(t)
      /\ \A c \in Clients :
           (program = "server" /\ connectedClients' \ {c} # {})
           => /\ (SrvActive /\ NewlyParked("launch", c)) => launched' = launched
              /\ (c \in connectedClients /\ c \notin connectedClients')
                 => UNCHANGED << launched, browser, page, screenshotInterval >>
    ]_vars

\* C17: screenshot streaming is suspended while a session is paused: no frame
\* is captured or delivered for a session whose stored status is paused.
C17_NoFramesWhilePaused ==
  /\ (resp.req \in {"screenshot", "stream"} /\ resp.sid \in Sessions
        /\ db[resp.sid].status = "paused")
     => ~resp.success
  /\ \A h \in Parked : h.kind = "capture" /\ h.sid \in Sessions
                         => db[h.sid].status # "paused"

\* The kinds of parked handlers that serve a request (a capture serves a timer).
RequestKinds == {"init", "action", "ai_action", "close", "launch", "command"}

\* A command of client c is suspended in the inference call of processCommand.
Translating(c) == \E h \in Parked : h.kind = "translate" /\ h.sid = c

\* C18: every request receives exactly one response, and every failure
\* response carries a non-empty error message: a handler that finishes answers
\* its caller, a step that answers leaves no handler of the request behind to
\* answer again, no response says failure without a message, and a command
\* that was received is answered.
C18_OneResponsePerRequest ==
  /\ [][ /\ \A h \in Parked :
               ((h.kind \in RequestKinds /\ Continued(h))
                  => (resp' # NoResp /\ resp'.sid = h.sid))
          /\ ((resp = NoResp /\ resp' # NoResp)
                  => BagCardinality(inflight') <= BagCardinality(inflight))
          /\ ((resp' # NoResp /\ ~resp'.success) => resp'.error # "")
        ]_vars
  /\ \A c \in Clients :
       Translating(c) ~> (resp.sid = c /\ resp.type \in {"command_response", "error"})

\* An Action executeAction can run: a navigate with its url, or a scroll or
\* wait (their parameters have defaults).  click and type need a selector,
\* which no Action of this model carries.
ValidAction(a) ==
  \/ a.action = "navigate" /\ a.url \notin {"", Undefined}
  \/ a.action \in {"scroll", "wait"}

\* C20: whatever the instruction (empty, garbage or missing included), when the
\* inference call is unreachable, answers with an error or answers with content
\* that JSON.parse rejects, processCommand returns an Action of a supported
\* kind with the parameters that kind requires, and no throw escapes it.
C20_FallbackTotal ==
  (translation.done /\ translation.outcome \in {"unreachable", "error", "unparseable"})
    => (translation.action # Thrown /\ ValidAction(translation.action))

\* A missing instruction whose inference output does not parse: toLowerCase
\* throws inside the fallback and the outer catch answers the default action.
C20_Witness ==
  /\ translation.done
  /\ translation.message = Undefined
  /\ translation.outcome = "unparseable"
  /\ translation.action = NavigateGoogle

\* C19: no message of type init, command, pause, resume or stop is answered
\* as an unknown message type.
C19_EveryTypeRouted ==
  (resp # NoResp /\ resp.via = "ws" /\ resp.req \in MessageTypes)
    => ~(resp.type = "error" /\ resp.error = "Unknown message type")

\* The messages of the errors a failed translation raises: no API key, the
\* inference call rejected, the model's answer is not JSON.
TranslationErrors == {"Gemini API not configured", "GoogleGenerativeAI Error",
                      "Unexpected token"}

\* C21: a translation failure is never surfaced: no failure response to an
\* instruction-driven action (ai_action, command) carries the error of an
\* unconfigured or unreachable inference service or of unparseable output.
C21_TranslationFailureHidden ==
  ( /\ resp.via = "ws"
    /\ resp.req = "ai_action" \/ resp.type = "command_response"
    /\ ~resp.success )
    => resp.error \notin TranslationErrors

\* The target of an instruction of the form "<keyword> <target>", "" when the
\* instruction is not of that form.
TargetOf(m) ==
  LET fits(kw) == /\ Len(m) > Len(kw) + 1
                  /\ SubSeq(m, 1, Len(kw) + 1) = kw \o " "
  IN  IF m # Undefined /\ \E kw \in Keywords : fits(kw)
        THEN LET kw == CHOOSE k \in Keywords : fits(k)
             IN  SubSeq(m, Len(kw) + 2, Len(m))
        ELSE ""

\* C22: an instruction "go to <target>" or "visit <target>" that reaches the
\* fallback parser yields a navigate action whose URL is <target>.
C22_GoToYieldsTarget ==
  ( /\ translation.done
    /\ translation.outcome = "unparseable"
    /\ TargetOf(translation.message) # "" )
    => translation.action = [action |-> "navigate", url |-> TargetOf(translation.message)]

\* The driver operations in flight on the page of session s: the parked
\* actions and captures, each counted as often as it is parked.
DriverOps(s) ==
  LET ops == {h \in Parked : h.sid = s /\ h.kind \in {"action", "ai_action", "capture"}}
      RECURSIVE Sum(_)
      Sum(S) == IF S = {} THEN 0
                ELSE LET h == CHOOSE x \in S : TRUE IN inflight[h] + Sum(S \ {h})
  IN  Sum(ops)

\* C23: per-session mutual exclusion on the driver: at most one driver
\* operation (an action or a screenshot capture) is in flight on a session's
\* page at any time.
C23_DriverMutualExclusion ==
  program = "BROWSER" => \A s \in Sessions : DriverOps(s) <= 1

\* C24: the result of a dispatch that completes after its session was torn
\* down is discarded: the step that ends the dispatch leaves the session's row
\* (status closed/stopped, current URL, last action) and every other piece of
\* session state as teardown left them.
C24_LateResultDiscarded ==
  [][ \A h \in Parked :
        ( /\ program = "BROWSER"
          /\ h.kind \in {"action", "ai_action"}
          /\ Continued(h)
          /\ db[h.sid].status \in {"closed", "stopped"} )
        => /\ db'[h.sid] = db[h.sid]
           /\ UNCHANGED << objs, browserSessions, screenshotIntervals, timers >>
    ]_vars

\* C25: once the stop response for a session has been sent (its row says
\* closed or stopped and no init has followed), no screenshot frame of that
\* session is pushed to the caller.
C25_NoFrameAfterStop ==
  (program = "BROWSER" /\ resp.req = "stream" /\ resp.type = "screenshot" /\ resp.success)
    => db[resp.sid].status \notin {"closed", "stopped"}

\* C26: no indefinite suspension in translation: a command that waits for the
\* inference service stops waiting after a bounded time, whether or not the
\* service replies.
C26_TranslationBounded ==
  \A c \in Clients : Translating(c) ~> ~Translating(c)

\* C27: for every instruction, the Action produced when the inference service
\* is unreachable equals the Action produced for the same instruction when
\* the service returns unparseable output.
C27_SameHeuristicOnBothPaths ==
  (translation.done /\ translation.outcome = "unreachable")
    => translation.action = processCommand(translation.message, "unparseable",
                                           translation.parsed)

\* The kind the keywords of an instruction call for, "" when it has none of
\* them: click/button, then type/enter/input, then navigate/go to/visit, then
\* scroll.
KeywordKind(m) ==
  LET lower == toLowerCase(m)
      has(words) == \E w \in words : includes(lower, w)
  IN  IF has({"click", "button"}) THEN "click"
      ELSE IF has({"type", "enter", "input"}) THEN "type"
      ELSE IF has({"navigate", "go to", "visit"}) THEN "navigate"
      ELSE IF has({"scroll"}) THEN "scroll"
      ELSE ""

\* C28: the fallback parser maps an instruction by keyword: click/button to a
\* click, type/enter/input to a type, navigate/go to/visit to a navigate and
\* scroll to a scroll.
C28_KeywordFallback ==
  ( /\ translation.done
    /\ translation.outcome = "unparseable"
    /\ translation.message # Undefined
    /\ KeywordKind(translation.message) # "" )
    => translation.action.action = KeywordKind(translation.message)

\* C29: type clears the field before inserting: after a successful type the
\* field's content equals the text, whatever the field held before.
C29_TypeReplacesContent ==
  field.done => field.content = field.text

\* C30: the driver variant of a session is fixed at init: every result of the
\* edge function that carries a source tag, after the session's init and
\* before its stop, carries the tag the init response carried.
C30_ProvenanceFixed ==
  ( /\ resp.via = "edge"
    /\ resp.success
    /\ resp.source # ""
    /\ resp.sid \in Sessions
    /\ initSource[resp.sid] # "" )
    => resp.source = initSource[resp.sid]

\* The error messages of an init that reported failure.
InitFailures == {"Failed to initialize browser", "Browser initialization error"}

\* C31: a failed init leaves nothing behind: when the init of a session (of the
\* single browser, in server.js) is answered with a failure, no session is
\* registered, no screenshot timer runs, no live browser process remains and
\* the page a following command would be executed on is null.
C31_FailedInitLeavesNothing ==
  (resp.req = "init" /\ ~resp.success /\ resp.error \in InitFailures)
  => /\ program = "BROWSER"
          => /\ browserSessions[resp.sid] = 0
             /\ screenshotIntervals[resp.sid] = 0
             /\ LiveDrivers(resp.sid) = {}
     /\ program = "server"
          => /\ LiveLaunched = {}
             /\ ~screenshotInterval
             /\ page = 0

\* C32: in the single-browser server at most one screenshot timer exists at any
\* time, and no screenshot timer runs while no client is connected, also when
\* an init that was in flight finishes after the last client disconnected.
C32_OneTimerOnlyWhileConnected ==
  program = "server"
  => /\ srvIntervals <= 1
     /\ connectedClients = {} => srvIntervals = 0

\* This step is the onopen of a socket.
Opened == \E i \in 1..Len(sockets) : sockets[i] = "CONNECTING" /\ sockets'[i] = "OPEN"

\* C33: client reconnection is bounded: the attempt counter never exceeds 5,
\* every reconnect a close schedules is counted (the counter was below 5 and
\* grows by one), the counter goes down only when a socket opens, which resets
\* it to 0, and with the counter at 5 a close schedules nothing: between two
\* opens at most 5 automatic attempts are scheduled.
C33_ReconnectBounded ==
  [][ /\ reconnectAttempts' <= maxReconnectAttempts
      /\ Opened => reconnectAttempts' = 0
      /\ reconnectAttempts' < reconnectAttempts => Opened
      /\ timeouts' > timeouts
           => (/\ reconnectAttempts < maxReconnectAttempts
               /\ reconnectAttempts' = reconnectAttempts + 1)
      /\ (reconnectAttempts = maxReconnectAttempts /\ ~Opened)
           => (timeouts' <= timeouts /\ reconnectAttempts' = maxReconnectAttempts)
    ]_vars

\* C33 witness: five reconnects were scheduled in a row, the socket of the
\* fifth closed too, and nothing is scheduled any more.
C33_Witness ==
  /\ program = "useCloudAI"
  /\ effect = "mounted"
  /\ reconnectAttempts = maxReconnectAttempts
  /\ timeouts = 0
  /\ Len(sockets) = maxReconnectAttempts + 1
  /\ \A i \in 1..Len(sockets) : sockets[i] = "CLOSED"

\* C34: after the cleanup of the effect closed the socket (unmount), the hook
\* instance opens no new WebSocket and sends no init message.
C34_NoConnectionAfterCleanup ==
  [][ effect = "cleanup" => (Len(sockets') = Len(sockets) /\ sent' # "init") ]_vars

\* C35: a hook instance has at most one WebSocket that is connecting or open at
\* any time, whatever the interleaving of connect, startBrowser, the reconnect
\* timeouts and the close events.
C35_OneLiveSocket ==
  program = "useCloudAI" => Cardinality(Alive) <= 1

\* C36: the loading flag is always released: after a sendCommand set isLoading,
\* isLoading becomes false again, also when the connection closes or errors
\* before the answer to the command arrives (a hook whose component unmounted
\* has no flag left to release).
C36_LoadingReleased == isLoading ~> (~isLoading \/ effect = "cleanup")

\* This step answered a request to the edge function that carried no
\* authenticated caller.
AnsweredUnauthenticated == resp = NoResp /\ resp'.via = "edge" /\ caller' = ""

\* This step wrote no row of browser_sessions, made no call to the BROWSER
\* server and changed nothing the server holds.
NoSideEffect ==
  /\ db' = db
  /\ owner' = owner
  /\ fetched' = ""
  /\ inflight' = inflight
  /\ objs' = objs
  /\ browserSessions' = browserSessions

C38_OwnershipRespected ==
  [][ \A s \in Sessions :
        ( /\ resp = NoResp
          /\ resp'.via = "edge"
          /\ resp'.sid = s
          /\ caller' \in Users
          /\ owner[s] \in Users \ {caller'} )
        => /\ owner'[s] = owner[s]
           /\ db'[s] = db[s]
           /\ fetched' # "/sessions/:sessionId/close"
    ]_vars

====
